---- MODULE Spec2Model ----
(***************************************************************************)
(* Model of bokehjs/src/lib/core/math_graphics.ts: the MathBox family      *)
(* (TeXBox, MathMLBox, AsciiBox), the process-wide MathJax provider they   *)
(* share, and the 2-D context they paint on; and of the tap handling of    *)
(* bokehjs/src/lib/models/tools/gestures/tap_tool.ts.                      *)
(*                                                                         *)
(* Boxes share nothing but the provider.  Every box of Boxes takes part    *)
(* as a caller of load_provider(); the fields of one box (text, font,      *)
(* color, valign, default anchors) are followed through style             *)
(* assignment, size(), to_svg() and paint().  The fields a MathBox         *)
(* inherits from GraphicsBox and only reads (position, angle, width,       *)
(* height, base and scale of the font size) are the caller's to assign     *)
(* before each call, and are drawn as inputs of the call.                  *)
(*                                                                         *)
(* Lengths are integers counting eighths of a device unit, so that         *)
(* 0.5*width and a percentage of one half are exact: Px(13) is 13 units.   *)
(* A number that may be NaN or undefined is a sequence: <<>> or <<v>>.     *)
(***************************************************************************)
EXTENDS Integers, Sequences, FiniteSets, TLC

\* Number of boxes that call load_provider().
NumBoxes == 3
\* Cap on the provider fetches the model follows.
MaxFetches == 3
\* Cap on the depth of the context's stack of saved states.
MaxDepth == 2

Boxes == 1..NumBoxes

VARIABLES
  status,     \* provider.status
  mathjax,    \* provider.MathJax is a handle (TRUE) or null (FALSE)
  fetches,    \* number of provider.fetch() calls started
  pc,         \* per box: where its load_provider() call stands
  observed,   \* per box: the provider status when its last call completed
  text,       \* this.text
  font,       \* this.font
  color,      \* this.color
  valign,     \* this.valign
  dialect,    \* the box's class: TeXBox, MathMLBox or AsciiBox
  x_default,  \* this._x_anchor
  y_default,  \* this._y_anchor
  depth,      \* saved states on the context's stack (saves minus restores)
  tool,       \* the TapTool model of the plot's TapToolView
  sources,    \* the plot's data sources, as the tap handling sees them
  ret         \* the call made by the step just taken, with its outcome

vars == <<status, mathjax, fetches, pc, observed, text, font, color, valign,
          dialect, x_default, y_default, depth, tool, sources, ret>>

tap_vars == <<tool, sources>>

provider_vars == <<status, mathjax, fetches>>
caller_vars == <<pc, observed>>
box_vars == <<text, font, color, valign, dialect, x_default, y_default>>

Terminal == {"loaded", "failed"}
Statuses == {"not_started", "loading"} \cup Terminal

None == <<>>
Some(v) == <<v>>
Px(n) == 8 * n

NoRet == [op |-> "none"]

\* The element of a one-element set.  A value a method computes once and
\* then reads several times is bound once, as v in The({ F(v) : v \in {e} }).
The(S) == CHOOSE v \in S : TRUE

(***************************************************************************)
(* The provider (models/text/providers): status, MathJax handle, fetch().  *)
(***************************************************************************)

\* fetch() up to its first suspension: the status becomes "loading".
FetchStart ==
  /\ status' = "loading"
  /\ fetches' = fetches + 1
  /\ UNCHANGED mathjax

\* The engine module arrived: the handle is stored, the status is "loaded".
FetchLoaded ==
  /\ status = "loading"
  /\ status' = "loaded"
  /\ mathjax' = TRUE
  /\ ret' = NoRet
  /\ UNCHANGED <<fetches, caller_vars, box_vars, depth, tap_vars>>

\* The engine module could not be loaded: the status is "failed".
FetchFailed ==
  /\ status = "loading"
  /\ status' = "failed"
  /\ ret' = NoRet
  /\ UNCHANGED <<mathjax, fetches, caller_vars, box_vars, depth, tap_vars>>

(***************************************************************************)
(* MathBox.load_provider                                                   *)
(***************************************************************************)

\* A load_provider() guard that would fetch whenever the engine is not there.
ShouldFetchUnlessLoaded(s) == s # "loaded"

\* A load_provider() guard that would retry a failed provider.
ShouldFetchOrRetry(s) == s \in {"not_started", "failed"}

\* if (this.provider.status == "not_started")
ShouldFetch(s) == s = "not_started"

\* Box b calls load_provider().  With the status "not_started" it calls
\* fetch() and suspends on its promise; otherwise the async function returns
\* at once and its promise is fulfilled, whatever the status is.
LoadProvider(b) ==
  /\ pc[b] \in {"idle", "done"}
  /\ fetches < MaxFetches
  /\ IF ShouldFetch(status)
       THEN /\ FetchStart
            /\ pc' = [pc EXCEPT ![b] = "awaiting"]
            /\ UNCHANGED observed
       ELSE /\ pc' = [pc EXCEPT ![b] = "done"]
            /\ observed' = [observed EXCEPT ![b] = status]
            /\ UNCHANGED provider_vars
  /\ ret' = [op |-> "load_provider", box |-> b, before |-> status,
             fetched |-> ShouldFetch(status)]
  /\ UNCHANGED <<box_vars, depth, tap_vars>>

\* The promise of fetch() settled: the suspended load_provider() of box b
\* resumes after its await and returns.
LoadProviderResume(b) ==
  /\ pc[b] = "awaiting"
  /\ status \in Terminal
  /\ pc' = [pc EXCEPT ![b] = "done"]
  /\ observed' = [observed EXCEPT ![b] = status]
  /\ ret' = NoRet
  /\ UNCHANGED <<provider_vars, box_vars, depth, tap_vars>>

(***************************************************************************)
(* Inputs: formula texts, the engine's answer to each, style payloads.     *)
(***************************************************************************)

Dialects == {"tex", "mathml", "ascii"}

\* A CSS length or font size string: its leading number, if it has one, and
\* the word that follows ("8px" is Css(8, "px"), "large" is CssWord("large")).
Css(n, w) == [num |-> Some(n), word |-> w]
CssWord(w) == [num |-> None, word |-> w]

\* One "rule:value" property of a style attribute; a property without a
\* colon has no value.
Rule(r, v) == [rule |-> r, value |-> Some(v)]
BareRule(r) == [rule |-> r, value |-> None]

\* An <svg> element as the engine returns it: its height, width and style
\* attributes, each present or absent.
Svg(h, w, st) == [height |-> h, width |-> w, style |-> st]

Formulas == {"x", "x^2", "frac", "sum", "odd", "bad"}

\* The engine's conversion of a formula: the <svg> element, or a throw.
Engine(t) ==
  CASE t = "x"    -> [threw |-> FALSE,
                      svg |-> Svg(Some(Css(1, "ex")), Some(Css(2, "ex")),
                                  Some(<<Rule("vertical-align", Css(-1, "ex")),
                                         BareRule("")>>))]
    [] t = "x^2"  -> [threw |-> FALSE,
                      svg |-> Svg(Some(Css(2, "ex")), Some(Css(3, "ex")),
                                  Some(<<Rule("vertical-align", Css(2, "px")),
                                         BareRule("")>>))]
    [] t = "frac" -> [threw |-> FALSE,
                      svg |-> Svg(Some(Css(6, "ex")), Some(Css(4, "ex")),
                                  Some(<<Rule("overflow", CssWord("visible")),
                                         BareRule("")>>))]
    [] t = "sum"  -> [threw |-> FALSE,
                      svg |-> Svg(None, Some(Css(5, "ex")), None)]
    [] t = "odd"  -> [threw |-> FALSE,
                      svg |-> Svg(Some(Css(1, "ex")), Some(Css(1, "ex")),
                                  Some(<<BareRule("block")>>))]
    [] OTHER      -> [threw |-> TRUE]

\* A style assignment's payload, with the box's font_size_scale and
\* _base_font_size (0: none defined) at the time of the assignment.
Style(c, a, st, sz, face, al, bl, scale, base) ==
  [color |-> c, alpha |-> a, font_style |-> st, font_size |-> sz,
   font |-> face, align |-> al, baseline |-> bl,
   font_size_scale |-> scale, base_font_size |-> base]

Styles ==
  { Style("red", 1, "normal", Css(8, "px"), "serif", "left", "top", 1, 16),
    Style("blue", 1, "bold", Css(1, "em"), "serif", "center", "middle", 1, 16),
    Style("red", 1, "normal", Css(1, "em"), "serif", "right", "bottom", 1, 0),
    Style("blue", 1, "bold", CssWord("large"), "serif", "left", "alphabetic", 2, 16) }

(***************************************************************************)
(* core/util/text and core/util/color                                      *)
(***************************************************************************)

\* parse_css_font_size, parse_css_length: {value, unit}, or null (None) for a
\* string that is no number followed by a unit, and for undefined.
parse_css_length(s) ==
  IF s = None \/ s[1].num = None THEN None
  ELSE Some([value |-> s[1].num[1], unit |-> s[1].word])

parse_css_font_size(s) == parse_css_length(Some(s))

\* color2css(color, alpha)
color2css(c, a) == [rgb |-> c, alpha |-> a]

\* The size in device units a font string stands for: the font is undefined
\* before the first style assignment, and a size that is no px or em length
\* leaves the context's default font.
FontPx(f) ==
  IF f = None THEN 10
  ELSE IF f[1].size.num = None THEN 10
  ELSE IF f[1].size.word = "px" THEN f[1].size.num[1]
  ELSE IF f[1].size.word = "em" THEN 16 * f[1].size.num[1]
  ELSE 10

\* font_metrics(font): a deterministic function of the font string.
font_metrics(f) ==
  [ascent   |-> Px(FontPx(f)),
   descent  |-> Px(FontPx(f)) \div 4,
   height   |-> Px(FontPx(f)) + Px(FontPx(f)) \div 4,
   x_height |-> Px(FontPx(f)) \div 2]

(***************************************************************************)
(* MathBox: the box, its calls' results, to_svg of the three variants.     *)
(***************************************************************************)

\* The box as the methods read it.
Self == [text |-> text, dialect |-> dialect, font |-> font, color |-> color,
         valign |-> valign, x_default |-> x_default, y_default |-> y_default]

\* A call that threw error e after n calls of the engine's conversion; the
\* box's valign is left at va.
Throw(e, n, va) == [threw |-> TRUE, error |-> e, engine |-> n, valign |-> va]

NotLoaded == "Please load MathJax before calling to_svg()"

\* The conversion entry point of the engine, called once.
Convert(entry, self) ==
  IF Engine(self.text).threw
    THEN Throw("conversion", 1, self.valign)
    ELSE [threw |-> FALSE, svg |-> Engine(self.text).svg, engine |-> 1,
          entry |-> entry]

\* A to_svg() without its guard: it reads tex2svg off the null handle.
to_svg_unguarded(mj, self) ==
  IF ~mj THEN Throw("TypeError", 0, self.valign) ELSE Convert("mathml2svg", self)

\* TeXBox.to_svg
TeXBox_to_svg(mj, self) ==
  IF ~mj THEN Throw(NotLoaded, 0, self.valign) ELSE Convert("tex2svg", self)

\* MathMLBox.to_svg
MathMLBox_to_svg(mj, self) ==
  IF ~mj THEN Throw(NotLoaded, 0, self.valign) ELSE Convert("mathml2svg", self)

\* AsciiBox.to_svg
AsciiBox_to_svg(mj, self) ==
  IF ~mj THEN Throw(NotLoaded, 0, self.valign) ELSE Convert("tex2svg", self)

\* this.to_svg(): the variant's own.
to_svg(mj, self) ==
  CASE self.dialect = "tex"    -> TeXBox_to_svg(mj, self)
    [] self.dialect = "mathml" -> MathMLBox_to_svg(mj, self)
    [] self.dialect = "ascii"  -> AsciiBox_to_svg(mj, self)

(***************************************************************************)
(* MathMLBox.styled_formula                                                *)
(*                                                                         *)
(* A text is a sequence of tokens: "<", "/", ">", "?" and " " are the      *)
(* characters the patterns and trim() tell apart, "math" is the word both  *)
(* patterns look for, and any other token is text without these.           *)
(***************************************************************************)

Least(S) == CHOOSE i \in S : \A j \in S : i <= j
Greatest(S) == CHOOSE i \in S : \A j \in S : j <= i

\* String.prototype.trim
trim(s) ==
  LET inked == {i \in DOMAIN s : s[i] # " "}
  IN IF inked = {} THEN << >> ELSE SubSeq(s, Least(inked), Greatest(inked))

\* /<math(.*?[^?])?>/s tried at index i: the index of the last token of the
\* match, 0 for no match.  The optional group is tried before it is
\* skipped, and its .*? grows from nothing: the match ends at the first ">"
\* whose predecessor, after "<math", is no "?", and is the bare "<math>" only
\* when there is no such ">".
OpenEnd(s, i) ==
  IF ~(i + 1 <= Len(s)) THEN 0
  ELSE IF ~(s[i] = "<" /\ s[i + 1] = "math") THEN 0
  ELSE LET js == {j \in (i + 2)..(Len(s) - 1) : s[j] # "?" /\ s[j + 1] = ">"}
       IN IF js # {} THEN Least(js) + 1
          ELSE IF i + 2 <= Len(s) /\ s[i + 2] = ">" THEN i + 2
          ELSE 0

\* /<\/[^>]*?math.*?>/s tried at index i: the index of the last token of the
\* match, 0 for no match.
CloseEnd(s, i) ==
  IF ~(i + 1 <= Len(s)) THEN 0
  ELSE IF ~(s[i] = "<" /\ s[i + 1] = "/") THEN 0
  ELSE LET ks == {k \in (i + 2)..Len(s) :
                    s[k] = "math" /\ \A q \in (i + 2)..(k - 1) : s[q] # ">"}
       IN IF ks = {} THEN 0
          ELSE LET es == {e \in (Least(ks) + 1)..Len(s) : s[e] = ">"}
               IN IF es = {} THEN 0 ELSE Least(es)

\* styled.match(pattern): matchs[0] of the leftmost match, or null.
Match(s, End(_, _)) ==
  LET starts == {i \in DOMAIN s : End(s, i) # 0}
  IN IF starts = {} THEN None
     ELSE Some(SubSeq(s, Least(starts), End(s, Least(starts))))

\* String.prototype.indexOf, counted from 0; the substring occurs in s.
indexOf(s, sub) ==
  Least({p \in 0..(Len(s) - Len(sub)) : SubSeq(s, p + 1, p + Len(sub)) = sub})

\* insert_text_on_position(text, position, str)
insert_text_on_position(s, position, str) ==
  SubSeq(s, 1, position) \o str \o SubSeq(s, position + 1, Len(s))

\* color2hexrgb(color)
color2hexrgb(c) ==
  CASE c[1].rgb = "red"  -> "#ff0000"
    [] c[1].rgb = "blue" -> "#0000ff"

\* this.font.includes("bold")
IsBold(f) == f[1].style = "bold"

\* `<mstyle displaystyle="true" mathcolor="${hex}" ${bold}>` and "</mstyle>"
MstyleOpen(c, f) ==
  << "<", "mstyle displaystyle=true", " ", "math", "color=", color2hexrgb(c),
     " " >>
  \o (IF IsBold(f) THEN << "math", "variant=bold" >> ELSE << >>)
  \o << ">" >>
MstyleClose == << "<", "/", "mstyle", ">" >>

Returned(v) == [threw |-> FALSE, value |-> v]
TypeError == [threw |-> TRUE, error |-> "TypeError"]

\* A styled_formula that returns what it has spliced so far when the
\* closing tag is not found.
styled_formula_partial(self) ==
  The({ IF m1 = None THEN Returned(trim(self.text))
        ELSE IF self.font = None THEN TypeError
        ELSE The({ The({ IF m2 = None THEN Returned(styled)
                         ELSE Returned(insert_text_on_position(
                                         styled, indexOf(styled, m2[1]),
                                         MstyleClose))
                         : m2 \in {Match(styled, CloseEnd)} })
                   : styled \in {insert_text_on_position(
                                   trim(self.text),
                                   indexOf(trim(self.text), m1[1]) + Len(m1[1]),
                                   MstyleOpen(self.color, self.font))} })
        : m1 \in {Match(trim(self.text), OpenEnd)} })

\* MathMLBox.styled_formula; on a box never styled, font is undefined and
\* reading font.includes throws.
MathMLBox_styled_formula(self) ==
  The({ IF m1 = None THEN Returned(trim(self.text))
        ELSE IF self.font = None THEN TypeError
        ELSE The({ The({ IF m2 = None THEN Returned(trim(self.text))
                         ELSE Returned(insert_text_on_position(
                                         styled, indexOf(styled, m2[1]),
                                         MstyleClose))
                         : m2 \in {Match(styled, CloseEnd)} })
                   : styled \in {insert_text_on_position(
                                   trim(self.text),
                                   indexOf(trim(self.text), m1[1]) + Len(m1[1]),
                                   MstyleOpen(self.color, self.font))} })
        : m1 \in {Match(trim(self.text), OpenEnd)} })

(***************************************************************************)
(* MathBox.svg_size and MathBox._size                                      *)
(***************************************************************************)

Placeholder == [width |-> Px(13), height |-> Px(13)]

MaxOf(a, b) == IF a >= b THEN a ELSE b

\* parseFloat(attribute?.replace(/([A-z])/g, "") ?? "0"): the number of the
\* attribute whatever its unit, 0 for an absent attribute.
ParseEx(attr) == IF attr = None THEN 0 ELSE attr[1].num[1]

\* The forEach over the style's properties throws on a property that has a
\* rule and no value (value.trim() of undefined).
StyleThrows(props) ==
  \E i \in DOMAIN props : props[i].rule # "" /\ props[i].value = None

\* rulesMap.get(name): the value of the last property with that rule.
RulesGet(props, name) ==
  LET at == {i \in DOMAIN props : props[i].rule = name}
  IN IF at = {} THEN None
     ELSE props[CHOOSE i \in at : \A j \in at : j <= i].value

\* The valign after the vertical-align hint v_align was read.
NewValign(v_align, fm, old) ==
  IF v_align # None /\ v_align[1].unit = "ex"
    THEN Some(v_align[1].value * fm.x_height)
  ELSE IF v_align # None /\ v_align[1].unit = "px"
    THEN Some(Px(v_align[1].value))
  ELSE old

\* svg_size()
svg_size(mj, self) ==
  IF ~mj THEN [threw |-> FALSE, size |-> Placeholder, engine |-> 0,
               valign |-> self.valign]
  ELSE
    The({ IF el.threw THEN el
          ELSE IF el.svg.style # None /\ StyleThrows(el.svg.style[1])
            THEN Throw("TypeError", el.engine, self.valign)
          ELSE
            [threw |-> FALSE,
             size |-> [width |-> fm.x_height * ParseEx(el.svg.width),
                       height |-> fm.x_height * ParseEx(el.svg.height)],
             engine |-> el.engine,
             valign |-> IF el.svg.style = None THEN self.valign
                        ELSE NewValign(
                               parse_css_length(
                                 RulesGet(el.svg.style[1], "vertical-align")),
                               fm, self.valign)]
          : el \in {to_svg(mj, self)}, fm \in {font_metrics(self.font)} })

\* A declared width or height: value num/den with a unit, or none.
Constraint(num, den, unit) == Some([value |-> <<num, den>>, unit |-> unit])

\* this.width?.unit == "%" ? this.width.value : 1
ScaleOf(c) == IF c # None /\ c[1].unit = "%" THEN c[1].value ELSE <<1, 1>>

Times(len, scale) == (len * scale[1]) \div scale[2]

\* A _size() without the provider check.
size_unchecked(mj, self, width, height) ==
  The({ IF s.threw THEN s
        ELSE [threw |-> FALSE,
              size |-> [width |-> Times(s.size.width, ScaleOf(width)),
                        height |-> Times(MaxOf(s.size.height, fm.height),
                                         ScaleOf(height))],
              measured |-> s.size, engine |-> s.engine, valign |-> s.valign]
        : s \in {svg_size(mj, self)}, fm \in {font_metrics(self.font)} })

\* A _size() that forgets the floor of one line.
size_no_floor(mj, self, width, height) ==
  IF ~mj THEN [threw |-> FALSE, size |-> Placeholder, measured |-> Placeholder,
               engine |-> 0, valign |-> self.valign]
  ELSE
    The({ IF s.threw THEN s
          ELSE [threw |-> FALSE,
                size |-> [width |-> Times(s.size.width, ScaleOf(width)),
                          height |-> Times(s.size.height, ScaleOf(height))],
                measured |-> s.size, engine |-> s.engine, valign |-> s.valign]
          : s \in {svg_size(mj, self)} })

\* A _size() that scales the measured height before the floor of one line.
size_scale_before_max(mj, self, width, height) ==
  IF ~mj THEN [threw |-> FALSE, size |-> Placeholder, measured |-> Placeholder,
               engine |-> 0, valign |-> self.valign]
  ELSE
    The({ IF s.threw THEN s
          ELSE [threw |-> FALSE,
                size |-> [width |-> Times(s.size.width, ScaleOf(width)),
                          height |-> MaxOf(Times(s.size.height,
                                                 ScaleOf(height)),
                                           fm.height)],
                measured |-> s.size, engine |-> s.engine, valign |-> s.valign]
          : s \in {svg_size(mj, self)}, fm \in {font_metrics(self.font)} })

\* _size()
_size(mj, self, width, height) ==
  IF ~mj THEN [threw |-> FALSE, size |-> Placeholder, measured |-> Placeholder,
               engine |-> 0, valign |-> self.valign]
  ELSE
    The({ IF s.threw THEN s
          ELSE [threw |-> FALSE,
                size |-> [width |-> Times(s.size.width, ScaleOf(width)),
                          height |-> Times(MaxOf(s.size.height, fm.height),
                                           ScaleOf(height))],
                measured |-> s.size, engine |-> s.engine, valign |-> s.valign]
          : s \in {svg_size(mj, self)}, fm \in {font_metrics(self.font)} })

(***************************************************************************)
(* MathBox.visuals (setter)                                                *)
(***************************************************************************)

\* An anchor: a keyword, or a number num/den.
Named(n) == [kind |-> "name", name |-> n]
Number(num, den) == [kind |-> "number", value |-> <<num, den>>]

\* A resolved size that turns em into px whether or not a base font size is
\* defined.
ResolvedSize_always_px(v) ==
  LET res == parse_css_font_size(v.font_size)
  IN IF res = None THEN v.font_size
     ELSE IF res[1].unit = "em"
       THEN Css(res[1].value * v.font_size_scale * v.base_font_size, "px")
     ELSE Css(res[1].value * v.font_size_scale, res[1].unit)

\* The font size of the resolved font: scaled, and em turned into px when a
\* base font size is defined.
ResolvedSize(v) ==
  LET res == parse_css_font_size(v.font_size)
  IN IF res = None THEN v.font_size
     ELSE IF res[1].unit = "em" /\ v.base_font_size # 0
       THEN Css(res[1].value * v.font_size_scale * v.base_font_size, "px")
     ELSE Css(res[1].value * v.font_size_scale, res[1].unit)

\* `${style} ${size} ${face}`
ResolvedFont(v) ==
  [style |-> v.font_style, size |-> ResolvedSize(v), face |-> v.font]

\* The default vertical anchor of a baseline keyword.
YAnchorOf(baseline) ==
  CASE baseline = "top"    -> "top"
    [] baseline = "middle" -> "center"
    [] baseline = "bottom" -> "bottom"
    [] OTHER               -> "baseline"

\* box.visuals = v
SetVisuals(v) ==
  /\ font' = Some(ResolvedFont(v))
  /\ color' = Some(color2css(v.color, v.alpha))
  /\ x_default' = Some(Named(v.align))
  /\ y_default' = Some(Named(YAnchorOf(v.baseline)))
  /\ ret' = NoRet
  /\ UNCHANGED <<provider_vars, caller_vars, text, valign, dialect, depth, tap_vars>>

(***************************************************************************)
(* MathBox._computed_position                                              *)
(***************************************************************************)

\* The caret, with the anchors it overrides (None: not given).
Position(sx, sy, xa, ya) ==
  [sx |-> sx, sy |-> sy, x_anchor |-> xa, y_anchor |-> ya]

\* Arithmetic on numbers that may be NaN.
Plus(a, b) == IF a = None \/ b = None THEN None ELSE Some(a[1] + b[1])
Minus(a, b) == IF a = None \/ b = None THEN None ELSE Some(a[1] - b[1])

\* The horizontal offset of an anchor; undefined for no anchor at all.
XOffset(anchor, width) ==
  IF anchor = None THEN None
  ELSE IF anchor[1].kind = "number" THEN Some(Times(width, anchor[1].value))
  ELSE CASE anchor[1].name = "left"   -> Some(0)
         [] anchor[1].name = "center" -> Some(width \div 2)
         [] anchor[1].name = "right"  -> Some(width)
         [] OTHER                     -> None

\* A vertical offset that ignores the overflow of the line at the top.
YOffset_top_flat(anchor, height, metrics, va) ==
  IF anchor = None THEN None
  ELSE IF anchor[1].kind = "number" THEN Some(Times(height, anchor[1].value))
  ELSE CASE anchor[1].name = "top" -> Some(0)
         [] anchor[1].name = "center" -> Some(height \div 2)
         [] anchor[1].name = "bottom" ->
              IF metrics.height > height
                THEN Plus(Some(height + metrics.descent), va)
                ELSE Some(height)
         [] anchor[1].name = "baseline" -> Some(height \div 2)
         [] OTHER -> None

\* A vertical offset that puts the baseline anchor on the box's top and
\* forgets the valign of an overflowing line at the bottom.
YOffset_plain_bottom(anchor, height, metrics, va) ==
  IF anchor = None THEN None
  ELSE IF anchor[1].kind = "number" THEN Some(Times(height, anchor[1].value))
  ELSE CASE anchor[1].name = "top" ->
              IF metrics.height > height
                THEN Minus(Minus(Some(height),
                                 Minus(Minus(Some(0), va), Some(metrics.descent))),
                           Some(metrics.height))
                ELSE Some(0)
         [] anchor[1].name = "center" -> Some(height \div 2)
         [] anchor[1].name = "bottom" ->
              IF metrics.height > height
                THEN Some(height + metrics.descent)
                ELSE Some(height)
         [] anchor[1].name = "baseline" -> Some(0)
         [] OTHER -> None

\* The vertical offset of an anchor.
YOffset(anchor, height, metrics, va) ==
  IF anchor = None THEN None
  ELSE IF anchor[1].kind = "number" THEN Some(Times(height, anchor[1].value))
  ELSE CASE anchor[1].name = "top" ->
              IF metrics.height > height
                THEN Minus(Minus(Some(height),
                                 Minus(Minus(Some(0), va), Some(metrics.descent))),
                           Some(metrics.height))
                ELSE Some(0)
         [] anchor[1].name = "center" -> Some(height \div 2)
         [] anchor[1].name = "bottom" ->
              IF metrics.height > height
                THEN Plus(Some(height + metrics.descent), va)
                ELSE Some(height)
         [] anchor[1].name = "baseline" -> Some(height \div 2)
         [] OTHER -> None

\* A _computed_position() that reads the box's default anchors only.
computed_position_defaults_only(mj, self, position, width, height) ==
  The({ IF sz.threw THEN sz
        ELSE [threw |-> FALSE,
              x |-> Minus(Some(position.sx),
                          XOffset(self.x_default, sz.size.width)),
              y |-> Minus(Some(position.sy),
                          YOffset(self.y_default, sz.size.height, metrics,
                                  sz.valign)),
              size |-> sz.size, engine |-> sz.engine, valign |-> sz.valign]
        : sz \in {_size(mj, self, width, height)},
          metrics \in {font_metrics(self.font)} })

\* _computed_position(): it measures the box first, which may throw and may
\* set valign, then resolves the anchors.
_computed_position(mj, self, position, width, height) ==
  LET x_anchor == IF position.x_anchor # None THEN position.x_anchor
                  ELSE self.x_default
      y_anchor == IF position.y_anchor # None THEN position.y_anchor
                  ELSE self.y_default
  IN The({ IF sz.threw THEN sz
           ELSE [threw |-> FALSE,
                 x |-> Minus(Some(position.sx),
                             XOffset(x_anchor, sz.size.width)),
                 y |-> Minus(Some(position.sy),
                             YOffset(y_anchor, sz.size.height, metrics,
                                     sz.valign)),
                 size |-> sz.size, engine |-> sz.engine, valign |-> sz.valign]
           : sz \in {_size(mj, self, width, height)},
             metrics \in {font_metrics(self.font)} })

(***************************************************************************)
(* MathBox.paint                                                           *)
(***************************************************************************)

\* A call on the 2-D context, or an assignment to one of its properties.
Call(f, args) == [f |-> f, a |-> args]

\* The catch block: the raw text at (x, y + ascent).
Fallback(self, x, y) ==
  << Call("fillStyle", <<self.color>>),
     Call("font", <<self.font>>),
     Call("textAlign", <<"left">>),
     Call("textBaseline", <<"alphabetic">>),
     Call("fillText",
          <<self.text, x, Plus(y, Some(font_metrics(self.font).ascent))>>) >>

\* A rotation that is applied for every angle given, 0 included.
Rotation_any_angle(position, angle) ==
  IF angle # None
    THEN << Call("translate", <<Some(position.sx), Some(position.sy)>>),
            Call("rotate", <<angle[1]>>),
            Call("translate", <<Some(-position.sx), Some(-position.sy)>>) >>
    ELSE << >>

\* if (angle != null && angle != 0): the rotation about the caret.
Rotation(position, angle) ==
  IF angle # None /\ angle[1] # 0
    THEN << Call("translate", <<Some(position.sx), Some(position.sy)>>),
            Call("rotate", <<angle[1]>>),
            Call("translate", <<Some(-position.sx), Some(-position.sy)>>) >>
    ELSE << >>

\* The try block: what it called on the context, whether it threw, the
\* engine conversions it made and the valign it left.  compositor says how
\* MathJaxCanvas behaves: "ok", "construct_throws" or "draw_throws".
TryDraw(mj, self, p, compositor) ==
  IF ~mj THEN [caught |-> TRUE, calls |-> << >>, engine |-> 0,
               valign |-> self.valign]
  ELSE
    The({ IF el.threw
            THEN [caught |-> TRUE, calls |-> << >>, engine |-> el.engine,
                  valign |-> self.valign]
          ELSE IF ss.threw
            THEN [caught |-> TRUE, calls |-> << >>,
                  engine |-> el.engine + ss.engine, valign |-> ss.valign]
          ELSE IF compositor = "construct_throws"
            THEN [caught |-> TRUE, calls |-> << >>,
                  engine |-> el.engine + ss.engine, valign |-> ss.valign]
          ELSE IF compositor = "draw_throws"
            THEN [caught |-> TRUE,
                  calls |-> << Call("translate", <<p.x, p.y>>) >>,
                  engine |-> el.engine + ss.engine, valign |-> ss.valign]
          ELSE [caught |-> FALSE,
                calls |-> << Call("translate", <<p.x, p.y>>),
                             Call("draw", << >>) >>,
                engine |-> el.engine + ss.engine, valign |-> ss.valign]
          : el \in {to_svg(mj, self)}, ss \in {svg_size(mj, self)} })

\* paint(ctx)
paint(mj, self, position, angle, width, height, compositor) ==
  The({ IF p.threw
          THEN [threw |-> TRUE, error |-> p.error,
                calls |-> << Call("save", << >>) >>,
                engine |-> p.engine, valign |-> p.valign]
        ELSE
          The({ [threw |-> FALSE,
                 calls |-> << Call("save", << >>) >>
                           \o Rotation(position, angle)
                           \o t.calls
                           \o (IF t.caught
                                 THEN Fallback([self EXCEPT !.valign = p.valign],
                                               p.x, p.y)
                                 ELSE << >>)
                           \o << Call("restore", << >>) >>,
                 caught |-> t.caught, x |-> p.x, y |-> p.y,
                 engine |-> p.engine + t.engine, valign |-> t.valign]
                : t \in {TryDraw(mj, [self EXCEPT !.valign = p.valign], p,
                                 compositor)} })
        : p \in {_computed_position(mj, self, position, width, height)} })

\* The number of calls of f in a sequence of context calls.
Count(calls, f) == Cardinality({i \in DOMAIN calls : calls[i].f = f})

(***************************************************************************)
(* TapToolView (models/tools/gestures/tap_tool.ts)                         *)
(***************************************************************************)

\* The TapTool model: gesture, behavior, modifiers (each null, None, or a
\* boolean) and whether a callback is set.
TapModel(g, b, shift, ctrl, alt, cb) ==
  [gesture |-> g, behavior |-> b,
   modifiers |-> [shift |-> shift, ctrl |-> ctrl, alt |-> alt],
   callback |-> cb]

\* A TapEvent: its screen point, whether the frame's bbox contains it, and
\* the modifier keys held.
TapEvent(sx, sy, inside, shift, ctrl, alt) ==
  [sx |-> sx, sy |-> sy, inside |-> inside,
   modifiers |-> [shift |-> shift, ctrl |-> ctrl, alt |-> alt]]

\* A data source with its renderers: whether the selection manager reports
\* a hit, and how many of its renderers have a view.
Source(hit, views) == [did_hit |-> hit, views |-> views]

\* A handle_event that does not look at the alt key.
handle_event_no_alt(model, ev) ==
  IF model.modifiers.shift # None
       /\ model.modifiers.shift[1] # ev.modifiers.shift THEN FALSE
  ELSE IF model.modifiers.ctrl # None
       /\ model.modifiers.ctrl[1] # ev.modifiers.ctrl THEN FALSE
  ELSE TRUE

\* The handle_event closure of _handle_tap
handle_event(model, ev) ==
  IF model.modifiers.shift # None
       /\ model.modifiers.shift[1] # ev.modifiers.shift THEN FALSE
  ELSE IF model.modifiers.ctrl # None
       /\ model.modifiers.ctrl[1] # ev.modifiers.ctrl THEN FALSE
  ELSE IF model.modifiers.alt # None
       /\ model.modifiers.alt[1] # ev.modifiers.alt THEN FALSE
  ELSE TRUE

\* _emit_callback for source i
_emit_callback(model, srcs, i) ==
  IF model.callback /\ srcs[i].views # 0
    THEN << Call("callback.execute", <<i>>) >>
    ELSE << >>

\* The loop over renderers_by_source, from source i on: the selection
\* manager's select or inspect, then the callback on a hit.
RECURSIVE ForSources(_, _, _, _)
ForSources(model, srcs, i, f) ==
  IF i > Len(srcs) THEN << >>
  ELSE << Call(f, <<i>>) >>
       \o (IF srcs[i].did_hit THEN _emit_callback(model, srcs, i)
           ELSE << >>)
       \o ForSources(model, srcs, i + 1, f)

\* _select
_select(model, ev, srcs) ==
  ForSources(model, srcs, 1, "select")
  \o << Call("_emit_selection_event", <<ev.sx, ev.sy>>),
        Call("state.push", <<"tap">>) >>

\* _inspect
_inspect(model, ev, srcs) == ForSources(model, srcs, 1, "inspect")

\* _handle_tap: what it calls, in order.
_handle_tap(model, ev, srcs) ==
  IF ~handle_event(model, ev) THEN << >>
  ELSE IF ~ev.inside THEN << >>
  ELSE << Call("_clear_other_overlays", << >>) >>
       \o (CASE model.behavior = "select"  -> _select(model, ev, srcs)
             [] model.behavior = "inspect" -> _inspect(model, ev, srcs)
             [] OTHER                      -> << >>)

\* _tap
_tap(model, ev, srcs) ==
  IF model.gesture = "tap" THEN _handle_tap(model, ev, srcs) ELSE << >>

\* _doubletap
_doubletap(model, ev, srcs) ==
  IF model.gesture = "doubletap" THEN _handle_tap(model, ev, srcs)
  ELSE << >>

(***************************************************************************)
(* Inputs of the calls                                                     *)
(***************************************************************************)

Widths == { None, Constraint(2, 1, "%"), Constraint(3, 1, "px") }
Heights == { None, Constraint(1, 2, "%"), Constraint(3, 1, "px") }
Angles == { None, Some(0), Some(1) }
Compositors == { "ok", "construct_throws", "draw_throws" }
Positions ==
  { Position(Px(10), Px(20), None, None),
    Position(Px(10), Px(20), Some(Number(1, 2)), Some(Named("top"))),
    Position(Px(10), Px(20), Some(Named("right")), Some(Named("bottom"))) }

\* Box heights and line heights of the anchor arithmetic: 0, 10, ... units.
MaxTens == 3
Lengths == { Px(10 * k) : k \in 0..MaxTens }
Descents == { Px(4), Px(6) }
Valigns == { None, Some(Px(2)), Some(Px(-3)) }
YAnchors == { Some(Named("top")), Some(Named("center")), Some(Named("bottom")),
              Some(Named("baseline")), Some(Number(1, 2)) }
\* The fields of font_metrics() the vertical closure reads.
Metrics(h, d) == [height |-> h, descent |-> d]

\* The carets of _computed_position(): every choice of anchors at one point.
XAnchors == { None, Some(Named("left")), Some(Named("center")),
              Some(Named("right")), Some(Number(1, 2)) }
Carets ==
  { Position(Px(10), Px(20), xa, ya) :
      xa \in XAnchors, ya \in {None} \cup YAnchors }

\* The declared width and height of a painted box.
Extent(w, h) == [width |-> w, height |-> h]
Extents == { Extent(None, None),
             Extent(Constraint(2, 1, "%"), Constraint(1, 2, "%")) }

\* The texts of the MathML boxes: every text of at most MaxLen tokens, and
\* three longer ones with both tags.
MaxLen == 4
Alphabet == { "<", "/", "math", ">", "?", "x", " " }
Markups ==
  UNION { [1..k -> Alphabet] : k \in 0..MaxLen }
  \cup { << "<", "math", ">", "x", "<", "/", "math", ">" >>,
         << " ", "<", "math", " ", "x", ">", "x", "<", "/", "math", ">", " " >>,
         << "<", "math", ">", "<", "x", ">", "x", "<", "/", "x", ">",
            "<", "/", "math", ">" >> }

\* Style payloads: font sizes at scales 1..MaxScale on base font sizes
\* (0: none defined), and alignments with baselines.
MaxScale == 2
FontSizes == { Css(1, "em"), Css(2, "em"), Css(8, "px"), CssWord("large") }
BaseFontSizes == { 0, 10, 16 }
Aligns == { "left", "center", "right" }
Baselines == { "top", "middle", "bottom", "alphabetic", "hanging" }
StylePayloads ==
  { Style("red", 1, st, sz, "serif", "left", "top", sc, b) :
      st \in {"normal", "bold"}, sz \in FontSizes,
      sc \in 1..MaxScale, b \in BaseFontSizes }
  \cup { Style("blue", 1, "normal", Css(8, "px"), "serif", al, bl, 1, 16) :
           al \in Aligns, bl \in Baselines }

\* The declared widths and heights of a positioned box: those of a painted
\* one, and a height in px.
DeclaredExtents == Extents \cup { Extent(None, Constraint(3, 1, "px")) }

\* The tools, events and data sources of the tap handling: at most
\* MaxSources sources.
MaxSources == 2
ModifierSpecs ==
  { [shift |-> None, ctrl |-> None, alt |-> None],
    [shift |-> Some(TRUE), ctrl |-> None, alt |-> None],
    [shift |-> Some(FALSE), ctrl |-> Some(TRUE), alt |-> None],
    [shift |-> None, ctrl |-> None, alt |-> Some(FALSE)],
    [shift |-> Some(TRUE), ctrl |-> Some(FALSE), alt |-> Some(TRUE)] }
TapModels ==
  { TapModel(g, b, m.shift, m.ctrl, m.alt, cb) :
      g \in {"tap", "doubletap"}, b \in {"select", "inspect"},
      m \in ModifierSpecs, cb \in BOOLEAN }
TapEvents ==
  { TapEvent(Px(10), Px(20), inside, shift, ctrl, alt) :
      inside \in BOOLEAN, shift \in BOOLEAN, ctrl \in BOOLEAN,
      alt \in BOOLEAN }
SourceLists ==
  UNION { [1..k -> {Source(TRUE, 1), Source(TRUE, 0), Source(FALSE, 1)}] :
            k \in 0..MaxSources }

\* The boxes constructed: the variant and the text given to its constructor.
Box(d, t) == [dialect |-> d, text |-> t]
Constructed ==
  { Box("tex", "x"), Box("tex", "bad"), Box("mathml", "x^2"),
    Box("mathml", "odd"), Box("ascii", "frac"), Box("ascii", "sum") }

(***************************************************************************)
(* The calls on the box                                                    *)
(***************************************************************************)

\* box.size(), with the declared width and height it reads
Size(width, height) ==
  \E r \in {_size(mathjax, Self, width, height)} :
     /\ valign' = r.valign
     /\ ret' = [op |-> "size", width |-> width, height |-> height, res |-> r]
     /\ UNCHANGED <<provider_vars, caller_vars, text, font, color, dialect,
                    x_default, y_default, depth, tap_vars>>

\* box.to_svg()
ToSvg ==
  \E r \in {to_svg(mathjax, Self)} :
     /\ ret' = [op |-> "to_svg", res |-> r]
     /\ UNCHANGED <<provider_vars, caller_vars, box_vars, depth, tap_vars>>

\* box.paint(ctx), with the position, angle, width and height it reads and
\* the behaviour of the compositor
Paint(position, angle, extent, compositor) ==
  \E r \in {paint(mathjax, Self, position, angle, extent.width, extent.height,
                  compositor)} :
     /\ depth < MaxDepth
     /\ valign' = r.valign
     /\ depth' = depth + Count(r.calls, "save") - Count(r.calls, "restore")
     /\ ret' = [op |-> "paint", position |-> position, angle |-> angle,
                width |-> extent.width, height |-> extent.height,
                compositor |-> compositor,
                res |-> r]
     /\ UNCHANGED <<provider_vars, caller_vars, text, font, color, dialect,
                    x_default, y_default, tap_vars>>

\* The vertical closure of _computed_position() (lines 100-120) on its own:
\* the anchor, the box height, the font's metrics and the valign it reads.
YAnchor(anchor, height, metrics, va) ==
  /\ ret' = [op |-> "y_offset", anchor |-> anchor, height |-> height,
             metrics |-> metrics, va |-> va,
             res |-> YOffset(anchor, height, metrics, va)]
  /\ UNCHANGED <<provider_vars, caller_vars, box_vars, depth, tap_vars>>

\* box._computed_position(), as _rect() and paint() call it, with the
\* position, width and height it reads
ComputedPosition(position, extent) ==
  \E r \in {_computed_position(mathjax, Self, position, extent.width,
                               extent.height)} :
     /\ valign' = r.valign
     /\ ret' = [op |-> "_computed_position", position |-> position,
                width |-> extent.width, height |-> extent.height, res |-> r]
     /\ UNCHANGED <<provider_vars, caller_vars, text, font, color, dialect,
                    x_default, y_default, depth, tap_vars>>

\* A tap or doubletap event dispatched to the TapToolView
Tap(kind, ev) ==
  /\ ret' = [op |-> "tap_event", kind |-> kind, model |-> tool, ev |-> ev,
             sources |-> sources,
             calls |-> CASE kind = "tap" -> _tap(tool, ev, sources)
                         [] kind = "doubletap" -> _doubletap(tool, ev, sources)]
  /\ UNCHANGED <<provider_vars, caller_vars, box_vars, depth, tap_vars>>

\* box.styled_formula of a MathMLBox
StyledFormula ==
  \E r \in {MathMLBox_styled_formula(Self)} :
     /\ ret' = [op |-> "styled_formula", res |-> r]
     /\ UNCHANGED <<provider_vars, caller_vars, box_vars, depth, tap_vars>>

(***************************************************************************)
(* The specification                                                       *)
(***************************************************************************)

\* After construction: the constructor assigns the text and nothing else.
Init ==
  /\ status = "not_started"
  /\ mathjax = FALSE
  /\ fetches = 0
  /\ pc = [b \in Boxes |-> "idle"]
  /\ observed = [b \in Boxes |-> "none"]
  /\ \E c \in Constructed : dialect = c.dialect /\ text = c.text
  /\ font = None
  /\ color = None
  /\ valign = None
  /\ x_default = None
  /\ y_default = None
  /\ depth = 0
  /\ tool = TapModel("tap", "select", None, None, None, FALSE)
  /\ sources = << >>
  /\ ret = NoRet

Next ==
  \/ \E b \in Boxes : LoadProvider(b)
  \/ \E b \in Boxes : LoadProviderResume(b)
  \/ FetchLoaded
  \/ FetchFailed
  \/ \E v \in Styles : SetVisuals(v)
  \/ \E w \in Widths, h \in Heights : Size(w, h)
  \/ ToSvg

\* Loading, styling and measuring: every box may load the provider.
Spec == Init /\ [][Next]_vars

NextPaint ==
  \/ LoadProvider(1)
  \/ LoadProviderResume(1)
  \/ FetchLoaded
  \/ FetchFailed
  \/ \E v \in Styles : SetVisuals(v)
  \/ \E p \in Positions, a \in Angles, e \in Extents, c \in Compositors :
        Paint(p, a, e, c)

\* Loading, styling and painting: the painted box loads the provider.
SpecPaint == Init /\ [][NextPaint]_vars

NextAnchor ==
  \E a \in YAnchors, h \in Lengths, l \in Lengths \ {0}, d \in Descents,
     va \in Valigns : YAnchor(a, h, Metrics(l, d), va)

\* The vertical anchor arithmetic over box heights, line heights, descents
\* and valigns.
SpecAnchor == Init /\ [][NextAnchor]_vars

\* After the construction of a MathMLBox.
InitFormula ==
  /\ status = "not_started"
  /\ mathjax = FALSE
  /\ fetches = 0
  /\ pc = [b \in Boxes |-> "idle"]
  /\ observed = [b \in Boxes |-> "none"]
  /\ dialect = "mathml"
  /\ text \in Markups
  /\ font = None
  /\ color = None
  /\ valign = None
  /\ x_default = None
  /\ y_default = None
  /\ depth = 0
  /\ tool = TapModel("tap", "select", None, None, None, FALSE)
  /\ sources = << >>
  /\ ret = NoRet

NextFormula ==
  \/ \E v \in Styles : SetVisuals(v)
  \/ StyledFormula

\* Styling a MathMLBox and reading its styled formula.
SpecFormula == InitFormula /\ [][NextFormula]_vars

NextStyle == \E v \in StylePayloads : SetVisuals(v)

\* Style assignments over font sizes, scales, base sizes, alignments and
\* baselines.
SpecStyle == Init /\ [][NextStyle]_vars

NextPosition ==
  \/ LoadProvider(1)
  \/ LoadProviderResume(1)
  \/ FetchLoaded
  \/ FetchFailed
  \/ \E v \in Styles : SetVisuals(v)
  \/ \E p \in Carets, e \in DeclaredExtents : ComputedPosition(p, e)

\* Loading, styling and positioning: the positioned box loads the provider.
SpecPosition == Init /\ [][NextPosition]_vars

\* A plot with one box, its TapTool and its data sources.
InitTap ==
  /\ status = "not_started"
  /\ mathjax = FALSE
  /\ fetches = 0
  /\ pc = [b \in Boxes |-> "idle"]
  /\ observed = [b \in Boxes |-> "none"]
  /\ dialect = "tex"
  /\ text = "x"
  /\ font = None
  /\ color = None
  /\ valign = None
  /\ x_default = None
  /\ y_default = None
  /\ depth = 0
  /\ tool \in TapModels
  /\ sources \in SourceLists
  /\ ret = NoRet

NextTap ==
  \E kind \in {"tap", "doubletap"}, ev \in TapEvents : Tap(kind, ev)

\* Tap and doubletap events on a plot.
SpecTap == InitTap /\ [][NextTap]_vars

(***************************************************************************)
(* Properties                                                              *)
(***************************************************************************)

\* The box was given its style, and the engine either cannot convert its
\* text or returns a graphic whose style attribute is well formed.
Styled == font # None
WellFormed ==
  \/ Engine(text).threw
  \/ Engine(text).svg.style = None
  \/ ~StyleThrows(Engine(text).svg.style[1])

\* C1: whatever the interleaving of load_provider() calls, the provider
\* fetch is started at most once; a call starts it exactly when the status
\* is not_started, and a call in status loading, loaded or failed starts none.
C1_SingleFetch ==
  /\ [](fetches <= 1)
  /\ [](ret.op = "load_provider" =>
          (ret.fetched <=> ret.before = "not_started"))
  /\ [][fetches' # fetches =>
          /\ status = "not_started"
          /\ fetches' = fetches + 1
          /\ ret'.op = "load_provider"]_vars

\* Every box called before the engine resolved, all but the first while
\* loading, and the first called again after the provider settled: one fetch.
C1_Witness ==
  /\ fetches = 1
  /\ ret.op = "load_provider" /\ ret.before \in Terminal
  /\ \A b \in Boxes \ {ret.box} : pc[b] = "done" /\ observed[b] = "loading"

\* C2: a load_provider() call completes only once the provider is loaded or
\* failed, so all callers whose call completed observed one final state.
C2_CallersSeeFinalState ==
  \A b \in Boxes :
    pc[b] = "done" =>
      /\ observed[b] \in Terminal
      /\ \A a \in Boxes : pc[a] = "done" => observed[a] = observed[b]

\* C3: paint(ctx) of a styled box returns normally, whatever the provider
\* state and whether or not the conversion or the compositor throws.
C3_PaintNeverThrows ==
  (ret.op = "paint" /\ Styled /\ WellFormed) => ~ret.res.threw

\* C4: every paint(ctx) of a styled box calls save once and restore once,
\* also when the conversion or the compositor throws, so that after the
\* paint the context holds no saved state of it.
C4_SaveRestoreBalanced ==
  (ret.op = "paint" /\ Styled /\ WellFormed) =>
    /\ Count(ret.res.calls, "save") = 1
    /\ Count(ret.res.calls, "restore") = 1
    /\ depth = 0

\* C5: while the provider status is not loaded, size() returns the
\* placeholder 13 x 13 whatever the text, the style and the declared width
\* and height, and makes no call of the engine's conversion.
C5_PlaceholderWhileNotLoaded ==
  (ret.op = "size" /\ status # "loaded") =>
    /\ ~ret.res.threw
    /\ ret.res.size = [width |-> Px(13), height |-> Px(13)]
    /\ ret.res.engine = 0

\* size() right after load_provider(), the engine not yet resolved, on a
\* styled box whose line is taller than 13 with both percentages declared.
C5_Witness ==
  /\ ret.op = "size" /\ status = "loading"
  /\ font # None /\ font_metrics(font).height > Px(13)
  /\ ScaleOf(ret.width) # <<1, 1>> /\ ScaleOf(ret.height) # <<1, 1>>

\* C6 as stated: with the provider loaded, a graphic of a styled box that is
\* lower than one line of the font gives size().height = font_metrics.height.
C6_HeightIsLineHeight ==
  (/\ ret.op = "size" /\ status = "loaded" /\ ~ret.res.threw /\ Styled
   /\ ret.res.measured.height < font_metrics(font).height) =>
    ret.res.size.height = font_metrics(font).height

\* C6, amended: with the provider loaded, a graphic lower than one line of
\* the font gives size().height = font_metrics.height times the height
\* factor (the value of a declared "%" height, else 1): the line height
\* itself when no percentage height is declared.
C6_HeightIsScaledLineHeight ==
  (/\ ret.op = "size" /\ status = "loaded" /\ ~ret.res.threw
   /\ ret.res.measured.height < font_metrics(font).height) =>
    /\ ret.res.size.height * ScaleOf(ret.height)[2]
         = font_metrics(font).height * ScaleOf(ret.height)[1]
    /\ (ret.height = None \/ ret.height[1].unit # "%") =>
         ret.res.size.height = font_metrics(font).height

\* A loaded size() of a graphic lower than one line, with a height of 50%.
C6_Witness ==
  /\ ret.op = "size" /\ status = "loaded" /\ ~ret.res.threw /\ Styled
  /\ ret.res.measured.height < font_metrics(font).height
  /\ ret.res.measured.height > 0
  /\ ret.height # None /\ ret.height[1].unit = "%"

\* C7: a paint(ctx) of a styled box with the provider not loaded, or whose
\* conversion or compositor throws, draws the raw text once: fillStyle,
\* font, textAlign "left", textBaseline "alphabetic", and
\* fillText(text, x, y + ascent) at the computed position (x, y).
C7_FallbackDrawsText ==
  (/\ ret.op = "paint" /\ Styled /\ WellFormed
   /\ \/ status # "loaded"
      \/ Engine(text).threw
      \/ ret.compositor # "ok") =>
    /\ ~ret.res.threw
    /\ Count(ret.res.calls, "fillText") = 1
    /\ \E i \in DOMAIN ret.res.calls :
         /\ i + 4 \in DOMAIN ret.res.calls
         /\ ret.res.calls[i].f = "fillStyle"
         /\ ret.res.calls[i].a = <<color>>
         /\ ret.res.calls[i + 1].f = "font"
         /\ ret.res.calls[i + 1].a = <<font>>
         /\ ret.res.calls[i + 2].f = "textAlign"
         /\ ret.res.calls[i + 2].a = <<"left">>
         /\ ret.res.calls[i + 3].f = "textBaseline"
         /\ ret.res.calls[i + 3].a = <<"alphabetic">>
         /\ ret.res.calls[i + 4].f = "fillText"
         /\ ret.res.calls[i + 4].a =
              <<text, ret.res.x,
                Plus(ret.res.y, Some(font_metrics(font).ascent))>>

\* C8: with the provider loaded and a formula the engine cannot convert,
\* size() of a styled box does not throw and, nothing having been measured,
\* reports 13 x 13.
C8_SizeSurvivesConversionFailure ==
  (ret.op = "size" /\ status = "loaded" /\ Styled /\ Engine(text).threw) =>
    /\ ~ret.res.threw
    /\ ret.res.size = [width |-> Px(13), height |-> Px(13)]

\* C9: to_svg() of a TeXBox, MathMLBox or AsciiBox, called while the provider
\* is not loaded, throws the explicit error without calling the engine's
\* conversion, and leaves the provider and every pending load as they were.
C9_ToSvgFailsLoudly ==
  /\ []((ret.op = "to_svg" /\ status # "loaded") =>
          /\ ret.res.threw
          /\ ret.res.error = "Please load MathJax before calling to_svg()"
          /\ ret.res.engine = 0)
  /\ [][ret'.op = "to_svg" =>
          (UNCHANGED <<status, mathjax, fetches, pc, observed>>)]_vars

\* to_svg() of a MathMLBox while the provider is loading.
C9_Witness ==
  /\ ret.op = "to_svg" /\ status = "loading" /\ dialect = "mathml"
  /\ ret.res.threw

\* C10: once the provider is loaded or failed, no step changes it and a
\* load_provider() call starts no fetch; with a failed provider every size()
\* returns 13 x 13.
C10_TerminalIsFinal ==
  /\ [][(status \in Terminal) =>
          (UNCHANGED <<status, mathjax, fetches>>)]_vars
  /\ []((ret.op = "load_provider" /\ ret.before \in Terminal) =>
          ~ret.fetched)
  /\ []((ret.op = "size" /\ status = "failed") =>
          /\ ~ret.res.threw
          /\ ret.res.size = [width |-> Px(13), height |-> Px(13)])

\* load_provider() called on a failed provider.
C10_Witness ==
  /\ ret.op = "load_provider" /\ ret.before = "failed" /\ status = "failed"
  /\ fetches = 1

\* C11: for y_anchor "top", when the font's line height is greater than the
\* box height the offset subtracted from sy is
\* height - (-valign - descent) - line_height, which is -4 for height 20,
\* line height 30, valign 2 and descent 4; when the line height does not
\* exceed the box height the offset is 0.
C11_TopOverflowOffset ==
  (ret.op = "y_offset" /\ ret.anchor = Some(Named("top"))) =>
    /\ (ret.metrics.height > ret.height /\ ret.va # None) =>
         ret.res = Some(ret.height + ret.va[1] + ret.metrics.descent
                          - ret.metrics.height)
    /\ (/\ ret.height = Px(20) /\ ret.metrics.height = Px(30)
        /\ ret.va = Some(Px(2)) /\ ret.metrics.descent = Px(4)) =>
         ret.res = Some(Px(-4))
    /\ ret.metrics.height <= ret.height => ret.res = Some(0)

\* The case of height 20, line height 30, valign 2 and descent 4.
C11_Witness ==
  /\ ret.op = "y_offset" /\ ret.anchor = Some(Named("top"))
  /\ ret.height = Px(20) /\ ret.metrics = Metrics(Px(30), Px(4))
  /\ ret.va = Some(Px(2)) /\ ret.res = Some(Px(-4))

\* An opening tag as the pattern finds it: "<math", then a ">" that comes
\* right after it or after a token other than "?".
HasOpening(s) ==
  \E i \in DOMAIN s, e \in DOMAIN s :
    /\ i + 1 < e /\ s[i] = "<" /\ s[i + 1] = "math" /\ s[e] = ">"
    /\ (e = i + 2 \/ s[e - 1] # "?")

\* A closing tag as the pattern finds it: "</", then "math" with no ">"
\* before it, then a ">".
HasClosing(s) ==
  \E i \in DOMAIN s, k \in DOMAIN s, e \in DOMAIN s :
    /\ i + 1 < k /\ k < e
    /\ s[i] = "<" /\ s[i + 1] = "/" /\ s[k] = "math" /\ s[e] = ">"
    /\ \A q \in (i + 2)..(k - 1) : s[q] # ">"

\* s with the tokens of sub taken out at one place.
Without(s, sub) ==
  { SubSeq(s, 1, p) \o SubSeq(s, p + Len(sub) + 1, Len(s)) :
      p \in {q \in 0..(Len(s) - Len(sub)) :
                SubSeq(s, q + 1, q + Len(sub)) = sub} }

\* C12: styled_formula of a styled MathMLBox never throws; when the trimmed
\* text has no opening <math ...> tag or no closing </math> tag, also when
\* the opening tag is found and the closing tag is not, it returns the
\* trimmed text itself; and whatever it returns is the trimmed text or the
\* trimmed text with both the opening and the closing mstyle spliced in.
C12_StyledFormulaNoOp ==
  (ret.op = "styled_formula" /\ Styled) =>
    /\ ~ret.res.threw
    /\ (~HasOpening(trim(text)) \/ ~HasClosing(trim(text))) =>
         ret.res.value = trim(text)
    /\ \/ ret.res.value = trim(text)
       \/ \E a \in Without(ret.res.value, MstyleOpen(color, font)) :
            trim(text) \in Without(a, MstyleClose)

\* The opening tag is found, the closing tag is not.
C12_Witness ==
  /\ ret.op = "styled_formula" /\ Styled
  /\ HasOpening(trim(text)) /\ ~HasClosing(trim(text))
  /\ trim(text) # text
  /\ ret.res.value = trim(text)

\* On "<math>x</math>" the opening pattern matches the whole text, so the
\* opening mstyle is spliced in after the closing tag.
BareMathTagSplice ==
  (/\ ret.op = "styled_formula" /\ Styled
   /\ text = << "<", "math", ">", "x", "<", "/", "math", ">" >>) =>
    ret.res.value = << "<", "math", ">", "x" >> \o MstyleClose
                    \o << "<", "/", "math", ">" >> \o MstyleOpen(color, font)

\* The font size of payload v is a number of em.
InEm(v) == v.font_size.num # None /\ v.font_size.word = "em"

\* C13 as stated: a style assignment whose font size is value(S) em, with a
\* base font size B defined, resolves the font's size to value(S) * B px;
\* with no base size defined the unit stays em.
C13_EmTimesBase ==
  [][\A v \in StylePayloads :
       (SetVisuals(v) /\ InEm(v)) =>
         IF v.base_font_size # 0
           THEN font'[1].size = Css(v.font_size.num[1] * v.base_font_size, "px")
           ELSE font'[1].size.word = "em"]_vars

\* C13, amended: a style assignment whose font size is value(S) em, with a
\* base font size B defined, resolves the font's size to
\* value(S) * font_size_scale * B px, which is value(S) * B px at scale 1;
\* with no base size defined the unit stays em and the value is
\* value(S) * font_size_scale.
C13_EmTimesScaleTimesBase ==
  [][\A v \in StylePayloads :
       (SetVisuals(v) /\ InEm(v)) =>
         /\ v.base_font_size # 0 =>
              /\ font'[1].size.word = "px"
              /\ font'[1].size.num =
                   Some(v.font_size.num[1] * v.font_size_scale
                          * v.base_font_size)
              /\ v.font_size_scale = 1 =>
                   font'[1].size =
                     Css(v.font_size.num[1] * v.base_font_size, "px")
         /\ v.base_font_size = 0 =>
              font'[1].size =
                Css(v.font_size.num[1] * v.font_size_scale, "em")]_vars

\* A font of 64px: the size 2em at scale 2 on a base font size of 16.
C13_Witness ==
  /\ font # None
  /\ font[1].size = Css(2 * 2 * 16, "px")

\* The angle of the paint just made is neither null nor 0.
Turned == ret.angle # None /\ ret.angle[1] # 0

\* C14: the context calls of a paint(ctx) begin with save; a paint that
\* returns makes, after save, translate(sx, sy), rotate(angle),
\* translate(-sx, -sy) exactly when the angle is neither null nor 0, and
\* ends with restore; a paint that draws the graphic makes, between the
\* two, translate(x, y) by the computed position and then the compositor's
\* draw, and nothing else.  With angle null or 0 there is no rotate call.
C14_PaintCallOrder ==
  ret.op = "paint" =>
    /\ ret.res.calls[1] = Call("save", << >>)
    /\ ~Turned => Count(ret.res.calls, "rotate") = 0
    /\ ~ret.res.threw =>
         /\ Count(ret.res.calls, "rotate") = (IF Turned THEN 1 ELSE 0)
         /\ Turned =>
              /\ ret.res.calls[2] =
                   Call("translate", <<Some(ret.position.sx),
                                       Some(ret.position.sy)>>)
              /\ ret.res.calls[3] = Call("rotate", <<ret.angle[1]>>)
              /\ ret.res.calls[4] =
                   Call("translate", <<Some(0 - ret.position.sx),
                                       Some(0 - ret.position.sy)>>)
         /\ ret.res.calls[Len(ret.res.calls)] = Call("restore", << >>)
         /\ Count(ret.res.calls, "save") = 1
         /\ Count(ret.res.calls, "restore") = 1
         /\ ~ret.res.caught =>
              /\ status = "loaded"
              /\ SubSeq(ret.res.calls, Len(ret.res.calls) - 2,
                        Len(ret.res.calls)) =
                   << Call("translate", <<ret.res.x, ret.res.y>>),
                      Call("draw", << >>),
                      Call("restore", << >>) >>
              /\ Len(ret.res.calls) = (IF Turned THEN 7 ELSE 4)

\* A rotated paint that draws the graphic, the box origin off the caret.
C14_Witness ==
  /\ ret.op = "paint" /\ Turned /\ ~ret.res.threw /\ ~ret.res.caught
  /\ ret.res.x # Some(ret.position.sx) /\ ret.res.y # Some(ret.position.sy)
  /\ ret.res.x # None /\ ret.res.y # None

\* The anchors the call just made resolves: the position's own when given,
\* otherwise the box's defaults.
XAnchorUsed ==
  IF ret.position.x_anchor # None THEN ret.position.x_anchor ELSE x_default
YAnchorUsed ==
  IF ret.position.y_anchor # None THEN ret.position.y_anchor ELSE y_default

\* C15: a style assignment sets the default anchors: x to align, y to top,
\* center, bottom for the baselines "top", "middle", "bottom" and to
\* baseline for any other; _computed_position() resolves the position's
\* explicit anchor when given and the default otherwise, with
\* x = sx - anchor * width for a numeric anchor and x = sx, sx - width/2,
\* sx - width for left, center, right (and y = sy - anchor * height,
\* y = sy - height/2 for a numeric, center or baseline anchor).
C15_AnchorResolution ==
  /\ [][\A v \in Styles :
          SetVisuals(v) =>
            /\ x_default' = Some(Named(v.align))
            /\ v.baseline = "top" => y_default' = Some(Named("top"))
            /\ v.baseline = "middle" => y_default' = Some(Named("center"))
            /\ v.baseline = "bottom" => y_default' = Some(Named("bottom"))
            /\ v.baseline \notin {"top", "middle", "bottom"} =>
                 y_default' = Some(Named("baseline"))]_vars
  /\ []((ret.op = "_computed_position" /\ ~ret.res.threw) =>
          /\ XAnchorUsed # None =>
               /\ ret.res.x # None
               /\ XAnchorUsed[1].kind = "number" =>
                    (ret.position.sx - ret.res.x[1]) * XAnchorUsed[1].value[2]
                      = XAnchorUsed[1].value[1] * ret.res.size.width
               /\ XAnchorUsed = Some(Named("left")) =>
                    ret.res.x[1] = ret.position.sx
               /\ XAnchorUsed = Some(Named("center")) =>
                    2 * (ret.position.sx - ret.res.x[1]) = ret.res.size.width
               /\ XAnchorUsed = Some(Named("right")) =>
                    ret.res.x[1] = ret.position.sx - ret.res.size.width
          /\ (YAnchorUsed # None /\ YAnchorUsed[1].kind = "number") =>
               /\ ret.res.y # None
               /\ (ret.position.sy - ret.res.y[1]) * YAnchorUsed[1].value[2]
                    = YAnchorUsed[1].value[1] * ret.res.size.height
          /\ YAnchorUsed \in {Some(Named("center")), Some(Named("baseline"))} =>
               /\ ret.res.y # None
               /\ 2 * (ret.position.sy - ret.res.y[1]) = ret.res.size.height)

\* A loaded box styled with align "center" and baseline "bottom" or
\* "middle", positioned with an explicit x_anchor "right" and no y_anchor.
C15_Witness ==
  /\ ret.op = "_computed_position" /\ ~ret.res.threw /\ status = "loaded"
  /\ x_default = Some(Named("center"))
  /\ ret.position.x_anchor = Some(Named("right"))
  /\ ret.position.y_anchor = None /\ y_default = Some(Named("center"))
  /\ ret.res.size.width > 0

\* The factor of a declared width or height: its value when its unit is
\* "%", 1 when it is absent or has another unit.
Factor(c) ==
  IF c = None THEN <<1, 1>>
  ELSE IF c[1].unit = "%" THEN c[1].value
  ELSE <<1, 1>>

\* C16: with the provider loaded, size() gives
\* width = measured_width * w_scale and
\* height = max(measured_height, line_height) * h_scale, each factor being
\* the value of that axis' own constraint when its unit is "%" and 1 when
\* the constraint is absent or has another unit.
C16_PerAxisScaling ==
  (ret.op = "size" /\ status = "loaded" /\ ~ret.res.threw) =>
    /\ ret.res.size.width * Factor(ret.width)[2]
         = ret.res.measured.width * Factor(ret.width)[1]
    /\ ret.res.size.height * Factor(ret.height)[2]
         = MaxOf(ret.res.measured.height, font_metrics(font).height)
             * Factor(ret.height)[1]

\* A graphic lower than one line, measured with a width of 200% and a
\* height of 50%.
C16_Witness ==
  /\ ret.op = "size" /\ status = "loaded" /\ ~ret.res.threw
  /\ ret.width # None /\ ret.width[1].unit = "%"
  /\ ret.height # None /\ ret.height[1].unit = "%"
  /\ Factor(ret.width) # Factor(ret.height)
  /\ ret.res.measured.width > 0
  /\ 0 < ret.res.measured.height
  /\ ret.res.measured.height < font_metrics(font).height

\* C17: the anchors center and baseline both resolve to the offset
\* 0.5 * height, so that they give the same y for the same caret and size;
\* bottom resolves to the full height when the font's line height does not
\* exceed the box height and to height + descent + valign when it does.
C17_SymbolicVerticalAnchors ==
  ret.op = "y_offset" =>
    /\ ret.anchor \in {Some(Named("center")), Some(Named("baseline"))} =>
         /\ ret.res # None
         /\ 2 * ret.res[1] = ret.height
    /\ ret.anchor = Some(Named("bottom")) =>
         /\ ret.metrics.height <= ret.height => ret.res = Some(ret.height)
         /\ (ret.metrics.height > ret.height /\ ret.va # None) =>
              ret.res = Some(ret.height + ret.metrics.descent + ret.va[1])

\* The bottom anchor of a box lower than one line, the valign negative.
C17_Witness ==
  /\ ret.op = "y_offset" /\ ret.anchor = Some(Named("bottom"))
  /\ ret.metrics.height > ret.height /\ ret.height > 0
  /\ ret.va # None /\ ret.va[1] < 0
  /\ ret.res = Some(ret.height + ret.metrics.descent + ret.va[1])

\* The vertical-align hint of the graphic the engine returns for a text.
HintOf(t) ==
  IF Engine(t).threw THEN None
  ELSE IF Engine(t).svg.style = None THEN None
  ELSE parse_css_length(RulesGet(Engine(t).svg.style[1], "vertical-align"))

\* C18: whenever _computed_position() of a styled box takes an overflow
\* branch (anchor top or bottom, the font's line height greater than the
\* box height), the valign it reads is a defined number, set in this same
\* call from the vertical-align hint of the graphic it measured, and the y
\* it returns is a number.
C18_ValignDefinedWhenRead ==
  (/\ ret.op = "_computed_position" /\ ~ret.res.threw /\ Styled
   /\ YAnchorUsed \in {Some(Named("top")), Some(Named("bottom"))}
   /\ font_metrics(font).height > ret.res.size.height) =>
    /\ ret.res.valign # None
    /\ ret.res.engine > 0
    /\ HintOf(text) # None
    /\ ret.res.y # None

\* C19: with the provider loaded and no percentage height (h_scale = 1),
\* the height _computed_position() reads from size() is at least the
\* font's line height, so that no overflow branch is taken: the anchor top
\* gives y = sy and the anchor bottom gives y = sy - height.
C19_NoOverflowAtScaleOne ==
  (/\ ret.op = "_computed_position" /\ status = "loaded" /\ ~ret.res.threw
   /\ (ret.height = None \/ ret.height[1].unit # "%")) =>
    /\ ret.res.size.height >= font_metrics(font).height
    /\ YAnchorUsed = Some(Named("top")) =>
         ret.res.y = Some(ret.position.sy)
    /\ YAnchorUsed = Some(Named("bottom")) =>
         ret.res.y = Some(ret.position.sy - ret.res.size.height)

\* A loaded, styled box whose graphic is lower than one line, anchored at
\* the bottom with a height in px, its valign set.
C19_Witness ==
  /\ ret.op = "_computed_position" /\ status = "loaded" /\ ~ret.res.threw
  /\ Styled /\ ret.height # None /\ ret.height[1].unit = "px"
  /\ YAnchorUsed = Some(Named("bottom"))
  /\ ret.res.valign # None
  /\ ret.res.size.height = font_metrics(font).height
  /\ ret.res.y = Some(ret.position.sy - ret.res.size.height)

\* The event just dispatched is one the tool handles: its kind is the
\* model's gesture, every modifier the model specifies equals the event's,
\* and its point lies inside the frame.
Handled ==
  /\ ret.kind = ret.model.gesture
  /\ \A k \in {"shift", "ctrl", "alt"} :
       ret.model.modifiers[k] # None =>
         ret.model.modifiers[k][1] = ret.ev.modifiers[k]
  /\ ret.ev.inside

\* C20: an event that is not handled makes no call at all: no overlays
\* cleared, no selection or inspection, no callback, no selection event, no
\* state pushed.  A handled event clears the other overlays first and then
\* selects or inspects, as the model's behavior says, once per source and
\* never both; select, and only select, emits the selection event and
\* pushes the "tap" state, once each, after all sources.
C20_TapHandledOnlyWhenMatching ==
  ret.op = "tap_event" =>
    /\ ~Handled => ret.calls = << >>
    /\ Handled =>
         /\ ret.calls[1] = Call("_clear_other_overlays", << >>)
         /\ Count(ret.calls, "_clear_other_overlays") = 1
         /\ Count(ret.calls, "callback.execute") =
              (IF ret.model.callback
                 THEN Cardinality({i \in DOMAIN ret.sources :
                                     /\ ret.sources[i].did_hit
                                     /\ ret.sources[i].views # 0})
                 ELSE 0)
         /\ ret.model.behavior = "select" =>
              /\ Count(ret.calls, "select") = Len(ret.sources)
              /\ Count(ret.calls, "inspect") = 0
              /\ Count(ret.calls, "_emit_selection_event") = 1
              /\ Count(ret.calls, "state.push") = 1
              /\ ret.calls[Len(ret.calls) - 1].f = "_emit_selection_event"
              /\ ret.calls[Len(ret.calls)] = Call("state.push", <<"tap">>)
         /\ ret.model.behavior = "inspect" =>
              /\ Count(ret.calls, "inspect") = Len(ret.sources)
              /\ Count(ret.calls, "select") = 0
              /\ Count(ret.calls, "_emit_selection_event") = 0
              /\ Count(ret.calls, "state.push") = 0

\* A handled doubletap that selects on two sources, one hit, with the
\* callback set and all three modifiers specified by the model.
C20_Witness ==
  /\ ret.op = "tap_event" /\ Handled /\ ret.kind = "doubletap"
  /\ ret.model.behavior = "select" /\ ret.model.callback
  /\ \A k \in {"shift", "ctrl", "alt"} : ret.model.modifiers[k] # None
  /\ Len(ret.sources) = 2
  /\ Count(ret.calls, "callback.execute") = 1
  /\ Count(ret.calls, "state.push") = 1

====
